---- MODULE Spec2Model ----
(***************************************************************************)
(* Chunk proofs of the merk authenticated tree (src/proofs/chunk.rs):      *)
(* trunk proof generation and verification, leaf chunk generation from a   *)
(* sorted cursor and leaf chunk verification.                              *)
(***************************************************************************)
EXTENDS Integers, Sequences, FiniteSets, TLC

(* ------------------------------ bounds --------------------------------- *)

\* largest number of nodes of a tree handed to create_trunk_proof
MaxNodes == 8

\* largest number of entries of a store scanned by get_next_chunk
MaxStoreNodes == 6

\* longest arbitrary op sequence handed to the verifiers
MaxOps == 5

\* most nodes of a tree whose encoding is handed to the verifiers
MaxProofNodes == 4

(* ---------------------------- keys, values ----------------------------- *)

\* the i-th key in cursor order: byte strings of mixed length, ascending
\* in the lexicographic byte order of the store
KeyAt(i) == IF i % 2 = 1 THEN << (i + 1) \div 2 >> ELSE << i \div 2, 0 >>

ValueAt(i) == << 7, i >>

\* `key < top_key.as_slice()`: lexicographic comparison of byte slices
RECURSIVE LexLessFrom(_, _, _)
LexLessFrom(a, b, i) ==
    IF i > Len(a) THEN i <= Len(b)
    ELSE IF i > Len(b) THEN FALSE
    ELSE IF a[i] # b[i] THEN a[i] < b[i]
    ELSE LexLessFrom(a, b, i + 1)

LexLess(a, b) == LexLessFrom(a, b, 1)

(* ------------------------------ hashes --------------------------------- *)

\* hashes are symbolic terms: two hashes are equal only if they were
\* computed from the same data
NULL_HASH == [h |-> "null"]

RawHash(d) == [h |-> "raw", d |-> d]

kv_hash(key, value) == [h |-> "kv", key |-> key, value |-> value]

node_hash(kv, left, right) == [h |-> "node", kv |-> kv, l |-> left, r |-> right]

(* ---------------------------- proof nodes ------------------------------ *)

KV(key, value) == [kind |-> "KV", key |-> key, value |-> value]

KVHash(h) == [kind |-> "KVHash", hash |-> h]

HashNode(h) == [kind |-> "Hash", hash |-> h]

Push(node) == [op |-> "Push", node |-> node]

Parent == [op |-> "Parent"]

Child == [op |-> "Child"]

\* an item of the op iterator that is an Err
ErrItem == [op |-> "Err"]

(* ---------------------------- source trees ----------------------------- *)

Nil == [nil |-> TRUE]

TreeNode(i, l, r) == [key |-> KeyAt(i), value |-> ValueAt(i), left |-> l, right |-> r]

RECURSIVE Height(_)
Height(t) ==
    IF t = Nil THEN 0
    ELSE LET hl == Height(t.left)
             hr == Height(t.right)
         IN 1 + (IF hl > hr THEN hl ELSE hr)

RECURSIVE Size(_)
Size(t) == IF t = Nil THEN 0 ELSE 1 + Size(t.left) + Size(t.right)

\* the balanced search trees holding exactly the keys KeyAt(lo) .. KeyAt(hi):
\* the heights of the two children of a node differ by at most one
RECURSIVE BalancedTrees(_, _)
BalancedTrees(lo, hi) ==
    IF lo > hi THEN {Nil}
    ELSE UNION { UNION { { TreeNode(i, l, r) :
                             r \in { x \in BalancedTrees(i + 1, hi) :
                                       Height(l) - Height(x) \in -1..1 } }
                         : l \in BalancedTrees(lo, i - 1) }
                 : i \in lo..hi }

RECURSIVE TreeHash(_)
TreeHash(t) ==
    node_hash(kv_hash(t.key, t.value),
              IF t.left = Nil THEN NULL_HASH ELSE TreeHash(t.left),
              IF t.right = Nil THEN NULL_HASH ELSE TreeHash(t.right))

to_kv_node(t) == KV(t.key, t.value)

to_kvhash_node(t) == KVHash(kv_hash(t.key, t.value))

to_hash_node(t) == HashNode(TreeHash(t))

(* ----------------------- trunk proof generator ------------------------- *)

\* traverse_for_height_proof with `depth >= trunk_height` for the test of
\* whether a node emits
RECURSIVE traverse_for_height_proof_ge(_, _)
traverse_for_height_proof_ge(t, depth) ==
    LET has_left_child == t.left # Nil
        sub == IF has_left_child
               THEN traverse_for_height_proof_ge(t.left, depth + 1)
               ELSE [trunk_height |-> depth \div 2, ops |-> << >>]
        trunk_height == sub.trunk_height
        own == IF depth >= trunk_height
               THEN << Push(to_kvhash_node(t)) >>
                    \o (IF has_left_child THEN << Parent >> ELSE << >>)
                    \o (IF t.right # Nil
                        THEN << Push(to_hash_node(t.right)), Child >>
                        ELSE << >>)
               ELSE << >>
    IN [trunk_height |-> trunk_height, ops |-> sub.ops \o own]

\* RefWalker::traverse_for_height_proof: the ops pushed to the proof and
\* the trunk height returned
RECURSIVE traverse_for_height_proof(_, _)
traverse_for_height_proof(t, depth) ==
    LET has_left_child == t.left # Nil
        sub == IF has_left_child
               THEN traverse_for_height_proof(t.left, depth + 1)
               ELSE [trunk_height |-> depth \div 2, ops |-> << >>]
        trunk_height == sub.trunk_height
        own == IF depth > trunk_height
               THEN << Push(to_kvhash_node(t)) >>
                    \o (IF has_left_child THEN << Parent >> ELSE << >>)
                    \o (IF t.right # Nil
                        THEN << Push(to_hash_node(t.right)), Child >>
                        ELSE << >>)
               ELSE << >>
    IN [trunk_height |-> trunk_height, ops |-> sub.ops \o own]

\* the outcome of a call that panicked on `unwrap()` of an absent child
Panicked == [ok |-> FALSE, ops |-> << >>]

\* traverse_for_trunk pushing the KVHash form of a frontier node instead
\* of its Hash form
RECURSIVE traverse_for_trunk_kvhash(_, _, _)
traverse_for_trunk_kvhash(t, remaining_depth, is_leftmost) ==
    IF remaining_depth = 0
    THEN IF is_leftmost
         THEN [ok |-> TRUE, ops |-> << >>]
         ELSE [ok |-> TRUE, ops |-> << Push(to_kvhash_node(t)) >>]
    ELSE IF t.left = Nil THEN Panicked
    ELSE LET l == traverse_for_trunk_kvhash(t.left, remaining_depth - 1, is_leftmost)
         IN IF ~l.ok THEN Panicked
            ELSE IF t.right = Nil THEN Panicked
            ELSE LET r == traverse_for_trunk_kvhash(t.right, remaining_depth - 1, FALSE)
                 IN IF ~r.ok THEN Panicked
                    ELSE [ok |-> TRUE,
                          ops |-> l.ops \o << Push(to_kv_node(t)), Parent >>
                                  \o r.ops \o << Child >>]

\* RefWalker::traverse_for_trunk: the ops pushed to the proof, or a panic
RECURSIVE traverse_for_trunk(_, _, _)
traverse_for_trunk(t, remaining_depth, is_leftmost) ==
    IF remaining_depth = 0
    THEN IF is_leftmost
         THEN [ok |-> TRUE, ops |-> << >>]
         ELSE [ok |-> TRUE, ops |-> << Push(to_hash_node(t)) >>]
    ELSE IF t.left = Nil THEN Panicked
    ELSE LET l == traverse_for_trunk(t.left, remaining_depth - 1, is_leftmost)
         IN IF ~l.ok THEN Panicked
            ELSE IF t.right = Nil THEN Panicked
            ELSE LET r == traverse_for_trunk(t.right, remaining_depth - 1, FALSE)
                 IN IF ~r.ok THEN Panicked
                    ELSE [ok |-> TRUE,
                          ops |-> l.ops \o << Push(to_kv_node(t)), Parent >>
                                  \o r.ops \o << Child >>]

(* ----------------------- proof execution engine ------------------------ *)

\* a reconstructed tree: the node and the two owned children
ProofTree(node) == [node |-> node, left |-> Nil, right |-> Nil]

Ok(tree) == [ok |-> TRUE, tree |-> tree]

Err(e) == [ok |-> FALSE, err |-> e]

\* the validation callback of verify_leaf: only KV nodes
leaf_visit_node(node) == node.kind = "KV"

\* the validation callback of verify_trunk: every node kind
trunk_visit_node(node) == TRUE

visit_node(mode, node) ==
    IF mode = "leaf" THEN leaf_visit_node(node) ELSE trunk_visit_node(node)

\* verify::execute: folds the ops from position i on over the stack. Parent
\* attaches the entry below the top as left child of the top, Child attaches
\* the top as right child of the entry below; the first Err item, rejected
\* node, stack underflow or attachment to an occupied side ends it, and so
\* does a final stack that is not one entry
RECURSIVE execute_from(_, _, _, _)
execute_from(ops, i, stack, mode) ==
    IF i > Len(ops)
    THEN IF Len(stack) = 1 THEN Ok(stack[1]) ELSE Err("MalformedProof")
    ELSE LET op == ops[i]
             n == Len(stack)
         IN IF op.op = "Err" THEN Err("InputError")
            ELSE IF op.op = "Push"
            THEN IF visit_node(mode, op.node)
                 THEN execute_from(ops, i + 1, Append(stack, ProofTree(op.node)), mode)
                 ELSE Err("UnexpectedNodeKind")
            ELSE IF n < 2 THEN Err("MalformedProof")
            ELSE IF op.op = "Parent"
            THEN LET parent == stack[n]
                     child == stack[n - 1]
                 IN IF parent.left # Nil THEN Err("MalformedProof")
                    ELSE execute_from(ops, i + 1,
                             Append(SubSeq(stack, 1, n - 2),
                                    [parent EXCEPT !.left = child]), mode)
            ELSE LET child == stack[n]
                     parent == stack[n - 1]
                 IN IF parent.right # Nil THEN Err("MalformedProof")
                    ELSE execute_from(ops, i + 1,
                             Append(SubSeq(stack, 1, n - 2),
                                    [parent EXCEPT !.right = child]), mode)

execute(ops, mode) == execute_from(ops, 1, << >>, mode)

\* verify::Tree::hash
RECURSIVE proof_hash(_)
proof_hash(t) ==
    LET child_hash(c) == IF c = Nil THEN NULL_HASH ELSE proof_hash(c)
    IN IF t.node.kind = "Hash" THEN t.node.hash
       ELSE IF t.node.kind = "KVHash"
       THEN node_hash(t.node.hash, child_hash(t.left), child_hash(t.right))
       ELSE node_hash(kv_hash(t.node.key, t.node.value),
                      child_hash(t.left), child_hash(t.right))

\* tests::count_node_types, one kind at a time
RECURSIVE count_node_types(_, _)
count_node_types(t, kind) ==
    IF t = Nil THEN 0
    ELSE (IF t.node.kind = kind THEN 1 ELSE 0)
         + count_node_types(t.left, kind) + count_node_types(t.right, kind)

(* --------------------------- trunk verifier ---------------------------- *)

\* verify_height_proof counting 0 for the node without a left child
RECURSIVE verify_height_proof_base0(_)
verify_height_proof_base0(t) ==
    IF t.left # Nil
    THEN IF t.left.node.kind = "Hash"
         THEN [ok |-> FALSE, height |-> 0]
         ELSE LET sub == verify_height_proof_base0(t.left)
              IN IF sub.ok THEN [ok |-> TRUE, height |-> sub.height + 1]
                 ELSE sub
    ELSE [ok |-> TRUE, height |-> 0]

\* verify_height_proof without the check for Hash nodes
RECURSIVE verify_height_proof_any_kind(_)
verify_height_proof_any_kind(t) ==
    IF t.left # Nil
    THEN LET sub == verify_height_proof_any_kind(t.left)
         IN [ok |-> TRUE, height |-> sub.height + 1]
    ELSE [ok |-> TRUE, height |-> 1]

\* verify_height_proof: the height, or the failure on a Hash node
RECURSIVE verify_height_proof(_)
verify_height_proof(t) ==
    IF t.left # Nil
    THEN IF t.left.node.kind = "Hash"
         THEN [ok |-> FALSE, height |-> 0]
         ELSE LET sub == verify_height_proof(t.left)
              IN IF sub.ok THEN [ok |-> TRUE, height |-> sub.height + 1]
                 ELSE sub
    ELSE [ok |-> TRUE, height |-> 1]

\* verify_completeness accepting a missing child
RECURSIVE verify_completeness_lenient(_, _, _)
verify_completeness_lenient(t, remaining_depth, leftmost) ==
    LET recurse(left, lm) ==
            LET c == IF left THEN t.left ELSE t.right
            IN IF c # Nil
               THEN verify_completeness_lenient(c, remaining_depth - 1, left /\ lm)
               ELSE "ok"
    IN IF remaining_depth > 0
       THEN IF t.node.kind # "KV" THEN "UnexpectedNodeKind"
            ELSE LET l == recurse(TRUE, leftmost)
                 IN IF l # "ok" THEN l ELSE recurse(FALSE, FALSE)
       ELSE IF ~leftmost
       THEN IF t.node.kind = "Hash" THEN "ok" ELSE "UnexpectedNodeKind"
       ELSE IF t.node.kind = "KVHash" THEN "ok" ELSE "UnexpectedNodeKind"

\* verify_completeness: "ok" or the error the walk meets first
RECURSIVE verify_completeness(_, _, _)
verify_completeness(t, remaining_depth, leftmost) ==
    LET recurse(left, lm) ==
            LET c == IF left THEN t.left ELSE t.right
            IN IF c # Nil
               THEN verify_completeness(c, remaining_depth - 1, left /\ lm)
               ELSE "IncompleteTrunk"
    IN IF remaining_depth > 0
       THEN IF t.node.kind # "KV" THEN "UnexpectedNodeKind"
            ELSE LET l == recurse(TRUE, leftmost)
                 IN IF l # "ok" THEN l ELSE recurse(FALSE, FALSE)
       ELSE IF ~leftmost
       THEN IF t.node.kind = "Hash" THEN "ok" ELSE "UnexpectedNodeKind"
       ELSE IF t.node.kind = "KVHash" THEN "ok" ELSE "UnexpectedNodeKind"

TrunkOk(tree, height) == [ok |-> TRUE, tree |-> tree, height |-> height]

TrunkErr(e) == [ok |-> FALSE, err |-> e]

verify_trunk(ops) ==
    LET ex == execute(ops, "trunk")
    IN IF ~ex.ok THEN TrunkErr(ex.err)
       ELSE LET hp == verify_height_proof(ex.tree)
            IN IF ~hp.ok THEN TrunkErr("UnexpectedNodeKind")
               ELSE LET expected_depth == hp.height \div 2
                        c == verify_completeness(ex.tree, expected_depth, TRUE)
                    IN IF c # "ok" THEN TrunkErr(c)
                       ELSE TrunkOk(ex.tree, hp.height)

(* ---------------------------- leaf verifier ---------------------------- *)

LeafOk(tree) == [ok |-> TRUE, tree |-> tree]

LeafErr(e) == [ok |-> FALSE, err |-> e]

\* verify_leaf without the comparison with the expected hash
verify_leaf_unhashed(ops, expected_hash) ==
    LET ex == execute(ops, "leaf")
    IN IF ~ex.ok THEN LeafErr(ex.err)
       ELSE LeafOk(ex.tree)

verify_leaf(ops, expected_hash) ==
    LET ex == execute(ops, "leaf")
    IN IF ~ex.ok THEN LeafErr(ex.err)
       ELSE IF proof_hash(ex.tree) # expected_hash THEN LeafErr("HashMismatch")
       ELSE LeafOk(ex.tree)

(* ------------------------ leaf chunk generator ------------------------- *)

None == [some |-> FALSE]

Some(key) == [some |-> TRUE, key |-> key]

Link(child) == IF child = Nil THEN None ELSE Some(child.key)

\* the stored encoding of a node: its value and the keys of its children
Entry(t) == [key |-> t.key, value |-> t.value,
             left |-> Link(t.left), right |-> Link(t.right)]

\* the entries of a stored tree in the order the cursor yields them
RECURSIVE StoredEntries(_)
StoredEntries(t) ==
    IF t = Nil THEN << >>
    ELSE StoredEntries(t.left) \o << Entry(t) >> \o StoredEntries(t.right)

\* the inner loop breaking on `key <= top_key`
RECURSIVE pop_count_strict(_, _)
pop_count_strict(key, stack) ==
    IF stack = << >> THEN 0
    ELSE IF ~LexLess(stack[Len(stack)], key) THEN 0
    ELSE 1 + pop_count_strict(key, SubSeq(stack, 1, Len(stack) - 1))

\* the inner `while let Some(top_key) = stack.last()` loop: how many
\* pending right-child keys are popped at the entry with this key
RECURSIVE pop_count(_, _)
pop_count(key, stack) ==
    IF stack = << >> THEN 0
    ELSE IF LexLess(key, stack[Len(stack)]) THEN 0
    ELSE 1 + pop_count(key, SubSeq(stack, 1, Len(stack) - 1))

Repeat(x, n) == [j \in 1..n |-> x]

\* get_next_chunk without the final advance past the entry of the end key
RECURSIVE chunk_loop_no_advance(_, _, _, _, _)
chunk_loop_no_advance(store, i, end_key, chunk, stack) ==
    IF i > Len(store) THEN [chunk |-> chunk, iter |-> i]
    ELSE LET node == store[i]
             key == node.key
         IN IF end_key.some /\ key = end_key.key
            THEN [chunk |-> chunk, iter |-> i]
            ELSE LET pushed == Append(chunk, Push(KV(key, node.value)))
                     linked == IF node.left.some
                               THEN Append(pushed, Parent) ELSE pushed
                 IN IF node.right.some
                    THEN chunk_loop_no_advance(store, i + 1, end_key, linked,
                                    Append(stack, node.right.key))
                    ELSE LET popped == pop_count(key, stack)
                         IN chunk_loop_no_advance(store, i + 1, end_key,
                                linked \o Repeat(Child, popped),
                                SubSeq(stack, 1, Len(stack) - popped))

\* the `while iter.valid()` loop of get_next_chunk and the final advance
RECURSIVE chunk_loop(_, _, _, _, _)
chunk_loop(store, i, end_key, chunk, stack) ==
    IF i > Len(store) THEN [chunk |-> chunk, iter |-> i]
    ELSE LET node == store[i]
             key == node.key
         IN IF end_key.some /\ key = end_key.key
            THEN [chunk |-> chunk, iter |-> i + 1]
            ELSE LET pushed == Append(chunk, Push(KV(key, node.value)))
                     linked == IF node.left.some
                               THEN Append(pushed, Parent) ELSE pushed
                 IN IF node.right.some
                    THEN chunk_loop(store, i + 1, end_key, linked,
                                    Append(stack, node.right.key))
                    ELSE LET popped == pop_count(key, stack)
                         IN chunk_loop(store, i + 1, end_key,
                                linked \o Repeat(Child, popped),
                                SubSeq(stack, 1, Len(stack) - popped))

get_next_chunk(store, i, end_key) == chunk_loop(store, i, end_key, << >>, << >>)

(* ----------------------------- the state ------------------------------- *)

VARIABLES
    tree,           \* the tree behind the walker, or the tree held by the store
    pc,             \* how far the caller has got
    trunk_height,   \* the local of create_trunk_proof
    ops,            \* the op sequence being built, returned or received
    trunk,          \* the outcome of verify_trunk
    db,             \* the stored entries in cursor order
    iter,           \* the cursor: an index into db, Len(db) + 1 when invalid
    calls,          \* the get_next_chunk calls made on the cursor so far
    leaf            \* the outcome of verify_leaf on the chunk in ops, with the
                    \* hash it was given, once it has run

vars == << tree, pc, trunk_height, ops, trunk, db, iter, calls, leaf >>

NotRun == [run |-> FALSE]

\* the most calls of get_next_chunk made on one cursor
MaxCalls == 2

(* ------------------------------ inputs --------------------------------- *)

TrunkTrees == UNION { BalancedTrees(1, n) : n \in 1..MaxNodes }

StoreTrees == UNION { BalancedTrees(1, n) : n \in 0..MaxStoreNodes }

NodeA == KV(KeyAt(1), ValueAt(1))

OpAlphabet == { Push(NodeA), Push(KVHash(RawHash(1))), Push(HashNode(RawHash(2))),
                Parent, Child, ErrItem }

OpSeqs == UNION { [1..n -> OpAlphabet] : n \in 0..MaxOps }

NodeAlphabet == { NodeA, KVHash(RawHash(1)), HashNode(RawHash(2)) }

\* the reconstructed trees of exactly n nodes over the node alphabet
RECURSIVE ProofTrees(_)
ProofTrees(n) ==
    IF n = 0 THEN {Nil}
    ELSE UNION { { [node |-> x, left |-> l, right |-> r] :
                     x \in NodeAlphabet,
                     l \in ProofTrees(k),
                     r \in ProofTrees(n - 1 - k) }
                 : k \in 0..(n - 1) }

\* the op sequence that builds a reconstructed tree: left subtree, the node,
\* Parent, right subtree, Child
RECURSIVE OpsOf(_)
OpsOf(t) ==
    IF t = Nil THEN << >>
    ELSE OpsOf(t.left) \o << Push(t.node) >>
         \o (IF t.left # Nil THEN << Parent >> ELSE << >>)
         \o OpsOf(t.right)
         \o (IF t.right # Nil THEN << Child >> ELSE << >>)

\* the op sequences a verifier is handed: every sequence of at most MaxOps
\* items, and the encodings of the trees of at most MaxProofNodes nodes
ReceivedOps ==
    OpSeqs \cup { OpsOf(t) : t \in UNION { ProofTrees(n) : n \in 1..MaxProofNodes } }

\* the hashes a caller may expect of a leaf chunk: those of the tree, of the
\* children of its root, and some that belong to no stored tree
ExpectedHashes ==
    { RawHash(2), proof_hash(ProofTree(NodeA)),
      proof_hash([ProofTree(NodeA) EXCEPT !.left = ProofTree(NodeA)]) }
    \cup (IF tree = Nil THEN {}
          ELSE {TreeHash(tree)}
               \cup (IF tree.left = Nil THEN {} ELSE {TreeHash(tree.left)})
               \cup (IF tree.right = Nil THEN {} ELSE {TreeHash(tree.right)}))

(* ------------------------------ actions -------------------------------- *)

\* create_trunk_proof, first half: the height proof
HeightProofStep ==
    /\ pc = "start"
    /\ LET hp == traverse_for_height_proof(tree, 1)
       IN /\ trunk_height' = hp.trunk_height
          /\ ops' = hp.ops
    /\ pc' = "height_done"
    /\ UNCHANGED << tree, trunk, db, iter, calls, leaf >>

\* create_trunk_proof, second half: the trunk body, which returns the proof
\* or panics
TrunkStep ==
    /\ pc = "height_done"
    /\ LET body == traverse_for_trunk(tree, trunk_height, TRUE)
       IN IF body.ok
          THEN /\ ops' = ops \o body.ops
               /\ pc' = "generated"
          ELSE /\ ops' = ops
               /\ pc' = "panicked"
    /\ UNCHANGED << tree, trunk_height, trunk, db, iter, calls, leaf >>

VerifyTrunk ==
    /\ pc \in {"generated", "received"}
    /\ trunk' = verify_trunk(ops)
    /\ pc' = "verified"
    /\ UNCHANGED << tree, trunk_height, ops, db, iter, calls, leaf >>

GetNextChunk ==
    /\ pc \in {"cursor", "chunked", "verified"}
    /\ Len(calls) < MaxCalls
    /\ \E end_key \in {None} \cup { Some(KeyAt(j)) : j \in 1..(Len(db) + 1) } :
         LET r == get_next_chunk(db, iter, end_key)
         IN /\ ops' = r.chunk
            /\ iter' = r.iter
            /\ calls' = Append(calls, [start |-> iter, end_key |-> end_key,
                                       chunk |-> r.chunk])
    /\ pc' = "chunked"
    /\ leaf' = NotRun
    /\ UNCHANGED << tree, trunk_height, trunk, db >>

VerifyLeaf ==
    /\ pc \in {"chunked", "received"}
    /\ \E expected_hash \in ExpectedHashes :
         leaf' = [res |-> verify_leaf(ops, expected_hash),
                  expected_hash |-> expected_hash]
    /\ pc' = "verified"
    /\ UNCHANGED << tree, trunk_height, ops, trunk, db, iter, calls >>

(* --------------------------- specifications ---------------------------- *)

\* a walker over a tree: create_trunk_proof, then verify_trunk
InitTrunk ==
    /\ tree \in TrunkTrees
    /\ pc = "start"
    /\ trunk_height = 0
    /\ ops = << >>
    /\ trunk = NotRun
    /\ db = << >>
    /\ iter = 1
    /\ calls = << >>
    /\ leaf = NotRun

NextTrunk == HeightProofStep \/ TrunkStep \/ VerifyTrunk

SpecTrunk == InitTrunk /\ [][NextTrunk]_vars

\* a cursor over a stored tree: get_next_chunk, then verify_leaf
InitLeaf ==
    /\ tree \in StoreTrees
    /\ db = StoredEntries(tree)
    /\ iter \in 1..(Len(db) + 1)
    /\ pc = "cursor"
    /\ trunk_height = 0
    /\ ops = << >>
    /\ trunk = NotRun
    /\ calls = << >>
    /\ leaf = NotRun

NextLeaf == GetNextChunk \/ VerifyLeaf

SpecLeaf == InitLeaf /\ [][NextLeaf]_vars

\* the verifiers on an op sequence received from a peer
InitVerify ==
    /\ ops \in ReceivedOps
    /\ pc = "received"
    /\ tree = Nil
    /\ trunk_height = 0
    /\ trunk = NotRun
    /\ db = << >>
    /\ iter = 1
    /\ calls = << >>
    /\ leaf = NotRun

NextVerify == VerifyTrunk \/ VerifyLeaf

SpecVerify == InitVerify /\ [][NextVerify]_vars

(* ------------------- vocabulary of the properties ---------------------- *)

\* the number of nodes on the left-child chain of a tree, root included
RECURSIVE LeftChainLen(_)
LeftChainLen(t) == IF t.left = Nil THEN 1 ELSE 1 + LeftChainLen(t.left)

\* the node of the left-child chain at depth k, the root being at depth 1
RECURSIVE ChainNode(_, _)
ChainNode(t, k) == IF k = 1 THEN t ELSE ChainNode(t.left, k - 1)

\* the ops the height proof emits for one node of the chain
HeightOpsOf(t) ==
    << Push(KVHash(kv_hash(t.key, t.value))) >>
    \o (IF t.left # Nil THEN << Parent >> ELSE << >>)
    \o (IF t.right # Nil THEN << Push(HashNode(TreeHash(t.right))), Child >> ELSE << >>)

\* the ops of the chain nodes of depth k and more, deepest first
RECURSIVE HeightOpsBelow(_, _)
HeightOpsBelow(t, k) ==
    IF k > LeftChainLen(t) THEN << >>
    ELSE HeightOpsBelow(t, k + 1) \o HeightOpsOf(ChainNode(t, k))

OpsSet == { ops[j] : j \in 1..Len(ops) }

EmitsAtDepth(k) == Push(KVHash(kv_hash(ChainNode(tree, k).key, ChainNode(tree, k).value))) \in OpsSet

(* ------------------------- trunk proof claims -------------------------- *)

\* C1: for every balanced tree create_trunk_proof returns a proof without
\* aborting, and verify_trunk accepts that proof.
C1_TrunkRoundtrip ==
    /\ pc # "panicked"
    /\ (pc = "verified" => trunk.ok)

\* C2 as stated: the height verify_trunk returns is the true height of the
\* tree, the number of nodes on its longest root-to-leaf path.
C2_TrueHeight ==
    (pc = "verified" /\ trunk.ok) => trunk.height = Height(tree)

\* C2 amended: the height verify_trunk returns is the number of nodes on
\* the left-child chain of the tree, whatever the longest path is.
C2_LeftChainHeight ==
    (pc = "verified" /\ trunk.ok) => trunk.height = LeftChainLen(tree)

C2_Witness ==
    /\ pc = "verified"
    /\ trunk.ok
    /\ trunk.height = LeftChainLen(tree)
    /\ trunk.height >= 2
    /\ Height(tree) > LeftChainLen(tree)

\* C7: for a tree of one node and for the two trees of two nodes the round
\* trip succeeds and the trunk holds one KV node (the root), no KVHash node
\* and one Hash node per child of the root.
C7_SmallTreeCounts ==
    Size(tree) <= 2 =>
        /\ pc # "panicked"
        /\ pc = "verified" =>
              /\ trunk.ok
              /\ count_node_types(trunk.tree, "KV") = 1
              /\ count_node_types(trunk.tree, "KVHash") = 0
              /\ count_node_types(trunk.tree, "Hash") = Size(tree) - 1

\* C8 as stated: the height proof emits ops exactly for the chain nodes
\* whose depth is at most the trunk height.
C8_EmitsWithinTrunk ==
    pc = "height_done" =>
        \A k \in 1..LeftChainLen(tree) : EmitsAtDepth(k) <=> (k <= trunk_height)

\* C8 amended: the trunk height is half the depth of the last chain node,
\* and the height proof is the ops (Push KVHash, Parent if it has a left
\* child, Push Hash of the right child and Child if it has one) of exactly
\* the chain nodes whose depth is greater than the trunk height, deepest
\* first; the chain nodes of depth at most the trunk height emit nothing.
C8_EmitsBelowTrunk ==
    pc = "height_done" =>
        /\ trunk_height = LeftChainLen(tree) \div 2
        /\ ops = HeightOpsBelow(tree, trunk_height + 1)
        /\ \A k \in 1..LeftChainLen(tree) : EmitsAtDepth(k) <=> (k > trunk_height)

C8_Witness ==
    /\ pc = "height_done"
    /\ trunk_height = 2
    /\ EmitsAtDepth(3)
    /\ ~EmitsAtDepth(2)
    /\ Len(ops) > 3

\* C10: executing the proof create_trunk_proof returns gives a tree whose
\* root hash is the root hash of the original tree.
C10_RootHashKept ==
    pc = "generated" =>
        LET ex == execute(ops, "trunk")
        IN ex.ok /\ proof_hash(ex.tree) = TreeHash(tree)

C10_Witness ==
    /\ pc = "generated"
    /\ trunk_height >= 1
    /\ proof_hash(execute(ops, "trunk").tree) = TreeHash(tree)
    /\ count_node_types(execute(ops, "trunk").tree, "Hash") >= 2
    /\ count_node_types(execute(ops, "trunk").tree, "KVHash") >= 2

(* --------------------------- verifier claims --------------------------- *)

PushedNodes == { ops[j].node : j \in { i \in 1..Len(ops) : ops[i].op = "Push" } }

\* the execution of the received ops with a callback that accepts everything
Executed == execute(ops, "trunk")

\* C5: verify_leaf returns a tree only if every pushed node is a KV node and
\* the root hash of the tree is the expected hash; ops with a Hash or KVHash
\* node, or with another root hash, give an error and no tree.
C5_LeafOnlyFullAndHashed ==
    leaf # NotRun =>
        /\ leaf.res.ok =>
              /\ \A x \in PushedNodes : x.kind = "KV"
              /\ Executed.ok
              /\ leaf.res.tree = Executed.tree
              /\ proof_hash(leaf.res.tree) = leaf.expected_hash
        /\ (\E x \in PushedNodes : x.kind # "KV") =>
              ~leaf.res.ok /\ "tree" \notin DOMAIN leaf.res
        /\ (Executed.ok /\ proof_hash(Executed.tree) # leaf.expected_hash) =>
              ~leaf.res.ok /\ "tree" \notin DOMAIN leaf.res

C5_Witness ==
    /\ leaf # NotRun
    /\ leaf.res.ok
    /\ Len(ops) = 3
    /\ proof_hash(leaf.res.tree) = leaf.expected_hash

\* a node reached from the root in fewer than `remaining` steps lacks its
\* left or its right child
RECURSIVE MissingAbove(_, _)
MissingAbove(t, remaining) ==
    /\ remaining > 0
    /\ \/ t.left = Nil
       \/ t.right = Nil
       \/ MissingAbove(t.left, remaining - 1)
       \/ MissingAbove(t.right, remaining - 1)

\* every node the completeness walk can reach has the kind its place asks
\* for: KV above the frontier, KVHash at the leftmost frontier node, Hash
\* at the other frontier nodes
RECURSIVE KindsAsExpected(_, _, _)
KindsAsExpected(t, remaining, leftmost) ==
    IF remaining > 0
    THEN /\ t.node.kind = "KV"
         /\ t.left # Nil => KindsAsExpected(t.left, remaining - 1, leftmost)
         /\ t.right # Nil => KindsAsExpected(t.right, remaining - 1, FALSE)
    ELSE t.node.kind = (IF leftmost THEN "KVHash" ELSE "Hash")

\* some node of the left-child chain, root included, is a Hash node
RECURSIVE HashOnChain(_)
HashOnChain(t) ==
    \/ t.node.kind = "Hash"
    \/ t.left # Nil /\ HashOnChain(t.left)

MissingTrunkNode ==
    /\ pc = "verified"
    /\ trunk # NotRun
    /\ Executed.ok
    /\ MissingAbove(Executed.tree, LeftChainLen(Executed.tree) \div 2)

\* C6 as stated: when a node above the frontier lacks a child, verify_trunk
\* fails with the IncompleteTrunk error and no other.
C6_AlwaysIncompleteTrunk ==
    MissingTrunkNode => ~trunk.ok /\ trunk.err = "IncompleteTrunk"

\* C6 amended: when a node above the frontier lacks a child, verify_trunk
\* fails; the error is IncompleteTrunk or the node kind error its checks
\* meet first, and it is IncompleteTrunk whenever every node the walk can
\* reach has the kind its place asks for.
C6_FailsOnMissingNode ==
    MissingTrunkNode =>
        /\ ~trunk.ok
        /\ trunk.err \in {"IncompleteTrunk", "UnexpectedNodeKind"}
        /\ (/\ ~HashOnChain(Executed.tree)
            /\ KindsAsExpected(Executed.tree, LeftChainLen(Executed.tree) \div 2, TRUE))
           => trunk.err = "IncompleteTrunk"

C6_Witness ==
    /\ MissingTrunkNode
    /\ ~trunk.ok
    /\ trunk.err = "IncompleteTrunk"
    /\ LeftChainLen(Executed.tree) >= 3

\* C9: when a node of the left-child chain of the reconstructed tree, from
\* the root down, is a Hash node, verify_trunk fails and returns neither
\* tree nor height.
C9_HashOnChainFails ==
    (pc = "verified" /\ trunk # NotRun /\ Executed.ok /\ HashOnChain(Executed.tree)) =>
        /\ ~trunk.ok
        /\ "tree" \notin DOMAIN trunk
        /\ "height" \notin DOMAIN trunk

C9_Witness ==
    /\ pc = "verified"
    /\ trunk # NotRun
    /\ Executed.ok
    /\ Executed.tree.node.kind = "KV"
    /\ HashOnChain(Executed.tree)
    /\ LeftChainLen(Executed.tree) >= 3
    /\ ~trunk.ok

(* -------------------------- leaf chunk claims -------------------------- *)

\* the reconstructed tree that reveals every node of a stored tree
RECURSIVE Revealed(_)
Revealed(t) ==
    IF t = Nil THEN Nil
    ELSE [node |-> KV(t.key, t.value), left |-> Revealed(t.left), right |-> Revealed(t.right)]

\* the subtrees of a stored tree whose smallest key is the entry at lo, each
\* with the positions of its first and last entry in cursor order
RECURSIVE SubtreeRanges(_, _)
SubtreeRanges(t, lo) ==
    IF t = Nil THEN {}
    ELSE { [lo |-> lo, hi |-> lo + Size(t) - 1, sub |-> t] }
         \cup SubtreeRanges(t.left, lo)
         \cup SubtreeRanges(t.right, lo + Size(t.left) + 1)

\* the position at which a call stops consuming entries: the first entry
\* from its start on whose key is the end key, or past the last entry
StopOf(call) ==
    LET hits == { j \in call.start..Len(db) :
                    call.end_key.some /\ db[j].key = call.end_key.key }
    IN IF hits = {} THEN Len(db) + 1
       ELSE CHOOSE j \in hits : \A k \in hits : j <= k

\* the chunk builds exactly this stored subtree, with the hash of the subtree
Reconstructs(chunk, sub) ==
    IF sub = Nil THEN chunk = << >>
    ELSE LET ex == execute(chunk, "leaf")
         IN /\ ex.ok
            /\ ex.tree = Revealed(sub)
            /\ proof_hash(ex.tree) = TreeHash(sub)

\* C3 as stated: whatever the start position and the end key, the chunk
\* get_next_chunk returns executes without stack underflow and leaves
\* exactly one entry (a chunk without ops, of a range without entries, is
\* not held against the statement).
C3_AnyChunkComplete ==
    \A c \in 1..Len(calls) :
        calls[c].chunk # << >> => execute(calls[c].chunk, "leaf").ok

\* C3 amended: when the entries a call consumes, from the start position up
\* to the entry of the end key or to the end of the store, are exactly the
\* entries of one subtree of the stored tree, the chunk executes without
\* stack underflow, leaves exactly one entry, and resolves every child link
\* of its nodes: it builds that subtree.
C3_SubtreeChunkComplete ==
    \A c \in 1..Len(calls) :
        \A r \in SubtreeRanges(tree, 1) :
            (calls[c].start = r.lo /\ StopOf(calls[c]) = r.hi + 1) =>
                /\ execute(calls[c].chunk, "leaf").ok
                /\ execute(calls[c].chunk, "leaf").tree = Revealed(r.sub)

C3_Witness ==
    /\ Len(calls) >= 1
    /\ \E r \in SubtreeRanges(tree, 1) :
          /\ calls[1].start = r.lo
          /\ StopOf(calls[1]) = r.hi + 1
          /\ r.lo > 1
          /\ Size(r.sub) >= 3
          /\ calls[1].end_key = Some(KeyAt(r.hi + 1))
          /\ execute(calls[1].chunk, "leaf").ok
          /\ execute(calls[1].chunk, "leaf").tree = Revealed(r.sub)

RootPos == Size(tree.left) + 1

\* C4: with the cursor at the first entry and no end key the chunk builds
\* the whole tree; with the key of the root as end key the chunk builds the
\* left subtree of the root, and a following call without end key starts
\* right after the entry of the root and builds the right subtree of the
\* root; the entry of the root is in neither chunk.
C4_ChunksRebuildSubtrees ==
    (Len(calls) >= 1 /\ calls[1].start = 1) =>
        /\ calls[1].end_key = None => Reconstructs(calls[1].chunk, tree)
        /\ (tree # Nil /\ calls[1].end_key = Some(tree.key)) =>
              /\ Reconstructs(calls[1].chunk, tree.left)
              /\ Push(KV(tree.key, tree.value)) \notin
                    { calls[1].chunk[j] : j \in 1..Len(calls[1].chunk) }
              /\ (Len(calls) >= 2 /\ calls[2].end_key = None) =>
                    /\ calls[2].start = RootPos + 1
                    /\ Reconstructs(calls[2].chunk, tree.right)
                    /\ Push(KV(tree.key, tree.value)) \notin
                          { calls[2].chunk[j] : j \in 1..Len(calls[2].chunk) }
                    /\ iter = Len(db) + 1

C4_Witness ==
    /\ Len(calls) = 2
    /\ calls[1].start = 1
    /\ tree # Nil
    /\ calls[1].end_key = Some(tree.key)
    /\ calls[2].end_key = None
    /\ Size(tree.left) >= 2
    /\ Size(tree.right) >= 2
    /\ Reconstructs(calls[1].chunk, tree.left)
    /\ Reconstructs(calls[2].chunk, tree.right)

====
